---- MODULE Spec2Model ----
(***************************************************************************)
(* Model of the block placement engine of redstone-designer:               *)
(*   IntVec3      (src/int_vec3.rs)                                         *)
(*   BlockState   (src/block_state/mod.rs, src/block/behavior.rs)           *)
(*   WorldState   (src/timeline/world_state.rs)                             *)
(*   Timeline     (src/timeline/mod.rs)                                     *)
(* A WorldState is a record [bounds, positions]; positions is the Vec of   *)
(* WorldPosition records [pos, state] in insertion order.                  *)
(***************************************************************************)
EXTENDS Integers, Sequences, FiniteSets, TLC

VARIABLES
    world,            \* a WorldState built by WorldState::new and used directly
    timeline,         \* the Timeline resource: [bounds, world_states, random_seed]
    overflow_checks,  \* build profile: TRUE when i32 arithmetic panics on overflow
    arg_pos,          \* pos argument of the last insert_block call
    arg_state,        \* state argument of the last insert_block call
    result,           \* what the last call returned ("none" before any call)
    pre_world,        \* world as it was when the last call started
    pre_timeline,     \* timeline as it was when the last call started
    block_state,      \* a BlockState that is constructed and then updated
    origin,           \* the constructor that built block_state
    call,             \* the last BlockState call: its name and arguments
    outcome,          \* what that call returned, as a record [kind, ...]
    pre_block_state,  \* block_state as it was when the last call started
    input_state,      \* the InputState resource: [mode, last_mode, bindings_pressed]
    selected_tool,    \* the SelectedTool resource: [active_tool, last_active_tool]
    keys_down,        \* Input<T>.pressed: the buttons and keys that are down
    frame,            \* just_pressed and just_released of the last frame
    ev_ui_command,    \* the UiCommands sent during the last frame, in order
    held_since        \* per key that went down and has had no event since: the
                      \* mode and the active tool at the start of that frame

bs_vars == <<block_state, origin, call, outcome, pre_block_state>>

ui_vars == <<input_state, selected_tool, keys_down, frame, ev_ui_command,
             held_since>>

vars == <<world, timeline, overflow_checks, arg_pos, arg_state, result,
          pre_world, pre_timeline, bs_vars, ui_vars>>

----------------------------------------------------------------------------
(* Bounds of the model *)

\* the largest number of blocks a world holds in the explored runs
MaxBlocks == 2

----------------------------------------------------------------------------
(* i32 and IntVec3 *)

I32Max == 2147483647
I32Min == (0 - I32Max) - 1

\* a + b leaves the i32 range (decided without computing the sum)
I32AddOverflows(a, b) ==
    \/ b > 0 /\ a > I32Max - b
    \/ b < 0 /\ a < I32Min - b

\* a + b reduced modulo 2^32 into the i32 range
I32WrappingAdd(a, b) ==
    IF b > 0 /\ a > I32Max - b THEN ((a - I32Max) + (b - 1)) + I32Min
    ELSE IF b < 0 /\ a < I32Min - b THEN ((a - I32Min) + (b + 1)) + I32Max
    ELSE a + b

IntVec3(x, y, z) == [x |-> x, y |-> y, z |-> z]

ZERO == IntVec3(0, 0, 0)
ONE == IntVec3(1, 1, 1)
NEG_Y == IntVec3(0, 0, 0)

IntVec3_add_overflows(a, b) ==
    \/ I32AddOverflows(a.x, b.x)
    \/ I32AddOverflows(a.y, b.y)
    \/ I32AddOverflows(a.z, b.z)

IntVec3_add(a, b) ==
    IntVec3(I32WrappingAdd(a.x, b.x), I32WrappingAdd(a.y, b.y), I32WrappingAdd(a.z, b.z))

IntVec3_mul(a, rhs) == IntVec3(a.x * rhs, a.y * rhs, a.z * rhs)

----------------------------------------------------------------------------
(* StateSchema and BlockState *)

\* StaticStateValue: B(bool) and S(&'static str)
B(b) == [tag |-> "B", val |-> IF b THEN "true" ELSE "false"]
S(s) == [tag |-> "S", val |-> s]

\* StateValue of the asset schema: Bool(bool) and String(String)
StateValue_Bool(b) == [tag |-> "Bool", val |-> IF b THEN "true" ELSE "false"]
StateValue_String(s) == [tag |-> "String", val |-> s]

\* impl From<StaticStateValue> for StateValue
StateValue_from(value) ==
    IF value.tag = "B" THEN [tag |-> "Bool", val |-> value.val]
    ELSE [tag |-> "String", val |-> value.val]

EmptyMap == [k \in {} |-> <<>>]

\* a schema in which one allowed-value list is empty
state_values_for_empty_list(block_type) ==
    CASE block_type = "repeater" ->
            [delay   |-> <<S("1"), S("2"), S("3"), S("4")>>,
             facing  |-> <<S("south"), S("north"), S("east"), S("west")>>,
             locked  |-> <<B(FALSE), B(TRUE)>>,
             powered |-> <<B(FALSE), B(TRUE)>>]
      [] block_type = "redstone_torch" ->
            [lit |-> <<>>]
      [] OTHER -> EmptyMap

\* a schema that gives unknown block types the properties of a torch
state_values_for_default_torch(block_type) ==
    CASE block_type = "repeater" ->
            [delay   |-> <<S("1"), S("2"), S("3"), S("4")>>,
             facing  |-> <<S("south"), S("north"), S("east"), S("west")>>,
             locked  |-> <<B(FALSE), B(TRUE)>>,
             powered |-> <<B(FALSE), B(TRUE)>>]
      [] block_type = "redstone_wire" ->
            [east  |-> <<S("none"), S("side|up")>>,
             north |-> <<S("none"), S("side|up")>>,
             south |-> <<S("none"), S("side|up")>>,
             west  |-> <<S("none"), S("side|up")>>]
      [] OTHER -> [lit |-> <<B(FALSE), B(TRUE)>>]

state_values_for(block_type) ==
    CASE block_type = "redstone_wire" ->
            [east  |-> <<S("none"), S("side|up")>>,
             north |-> <<S("none"), S("side|up")>>,
             south |-> <<S("none"), S("side|up")>>,
             west  |-> <<S("none"), S("side|up")>>]
      [] block_type = "repeater" ->
            [delay   |-> <<S("1"), S("2"), S("3"), S("4")>>,
             facing  |-> <<S("south"), S("north"), S("east"), S("west")>>,
             locked  |-> <<B(FALSE), B(TRUE)>>,
             powered |-> <<B(FALSE), B(TRUE)>>]
      [] block_type = "redstone_torch" ->
            [lit |-> <<B(FALSE), B(TRUE)>>]
      [] OTHER -> EmptyMap

\* Vec::swap_remove(index) panics when index is not below the length
swap_remove_panics(vec, index) == index >= Len(vec)

\* initial_state_for panics when it takes the first element of an empty list
initial_state_for_panics(block_type) ==
    LET allowed_values == state_values_for(block_type)
    IN  \E key \in DOMAIN allowed_values : swap_remove_panics(allowed_values[key], 0)

\* initial_state_for taking the last allowed value of each property (pop)
initial_state_for_last(block_type) ==
    LET allowed_values == state_values_for(block_type)
    IN  [block_type |-> block_type,
         values |-> [key \in DOMAIN allowed_values |->
                        StateValue_from(allowed_values[key][Len(allowed_values[key])])]]

initial_state_for(block_type) ==
    LET allowed_values == state_values_for(block_type)
    IN  [block_type |-> block_type,
         values |-> [key \in DOMAIN allowed_values |->
                        StateValue_from(allowed_values[key][1])]]

\* Text is a sequence of tokens: the separators "," and "=" and, between
\* them, maximal runs of other characters taken as one token each.
\* str::split(sep): the pieces between the separators, one more than separators
RECURSIVE split(_, _)
split(text, sep) ==
    IF \A i \in 1..Len(text) : text[i] # sep THEN <<text>>
    ELSE LET i == CHOOSE k \in 1..Len(text) :
                     text[k] = sep /\ \A j \in 1..(k - 1) : text[j] # sep
         IN  <<SubSeq(text, 1, i - 1)>> \o split(SubSeq(text, i + 1, Len(text)), sep)

\* the &str held by a piece that contains no separator
str_of(piece) == IF piece = <<>> THEN "" ELSE piece[1]

\* From<&str> that reads every text as a string value
StateValue_from_str_string_only(source) == StateValue_String(source)

\* impl From<&str> for StateValue
StateValue_from_str(source) ==
    IF source = "true" THEN StateValue_Bool(TRUE)
    ELSE IF source = "false" THEN StateValue_Bool(FALSE)
    ELSE StateValue_String(source)

\* parse without the test that skips an empty entry
parse_panics_empty_too(input) ==
    LET pieces == split(input, ",")
    IN  \E i \in 1..Len(pieces) : Len(split(pieces[i], "=")) < 2

\* BlockState::parse aborts when a non-empty entry has no '=': its split[1]
\* is out of range
parse_panics(input) ==
    LET pieces == split(input, ",")
    IN  \E i \in 1..Len(pieces) :
            pieces[i] # <<>> /\ Len(split(pieces[i], "=")) < 2

\* the (state, value) pairs BlockState::parse collects, in input order
parse_entries(input) ==
    LET pieces == split(input, ",")
        kept == SelectSeq(pieces, LAMBDA state_value : state_value # <<>>)
    IN  [i \in 1..Len(kept) |->
            LET parts == split(kept[i], "=")
            IN  <<str_of(parts[1]), StateValue_from_str(str_of(parts[2]))>>]

\* .collect() into a HashMap: the last entry of a key wins
collect_map(entries) ==
    [key \in {entries[i][1] : i \in 1..Len(entries)} |->
        LET last == CHOOSE i \in 1..Len(entries) :
                       /\ entries[i][1] = key
                       /\ \A j \in (i + 1)..Len(entries) : entries[j][1] # key
        IN  entries[last][2]]

\* the map built when parse does not abort
parse(input) == collect_map(parse_entries(input))

BlockState_new(block_type, state_values) ==
    [block_type |-> block_type, values |-> parse(state_values)]

\* equality of the payloads alone, whatever the variants
StaticStateValue_eq_untagged(lhs, rhs) == lhs.val = rhs.val

\* impl PartialEq<StateValue> for StaticStateValue
StaticStateValue_eq(lhs, rhs) ==
    \/ lhs.tag = "B" /\ rhs.tag = "Bool" /\ lhs.val = rhs.val
    \/ lhs.tag = "S" /\ rhs.tag = "String" /\ lhs.val = rhs.val

\* self.values.entry(prop).and_modify(|v| *v = value)
entry_and_modify(values, prop, value) ==
    IF prop \in DOMAIN values THEN [values EXCEPT ![prop] = value] ELSE values

\* update that does not compare the value with the allowed values
BlockState_update_unchecked(state, prop, value) ==
    LET allowed_states == state_values_for(state.block_type)
    IN  IF prop \notin DOMAIN allowed_states
        THEN [state |-> state, result |-> "Err"]
        ELSE [state |-> [state EXCEPT !.values =
                            entry_and_modify(state.values, prop, value)],
              result |-> "Ok"]

\* update that writes the value with insert before it validates
BlockState_update_write_first(state, prop, value) ==
    LET allowed_states == state_values_for(state.block_type)
        written == [state EXCEPT !.values =
                       [key \in DOMAIN state.values \cup {prop} |->
                           IF key = prop THEN value ELSE state.values[key]]]
    IN  IF prop \notin DOMAIN allowed_states
        THEN [state |-> written, result |-> "Err"]
        ELSE IF \E i \in 1..Len(allowed_states[prop]) :
                    StaticStateValue_eq(allowed_states[prop][i], value)
             THEN [state |-> written, result |-> "Ok"]
             ELSE [state |-> state, result |-> "Err"]

\* the BlockState after the call and "Ok" or "Err"
BlockState_update(state, prop, value) ==
    LET allowed_states == state_values_for(state.block_type)
    IN  IF prop \notin DOMAIN allowed_states
        THEN [state |-> state, result |-> "Err"]
        ELSE IF \E i \in 1..Len(allowed_states[prop]) :
                    StaticStateValue_eq(allowed_states[prop][i], value)
             THEN [state |-> [state EXCEPT !.values =
                                 entry_and_modify(state.values, prop, value)],
                   result |-> "Ok"]
             ELSE [state |-> state, result |-> "Err"]

BlockFaces == {"North", "South", "East", "West", "Up", "Down"}

\* the face names with East and West exchanged
facing_of_swapped(face) ==
    CASE face = "North" -> "north"
      [] face = "South" -> "south"
      [] face = "East" -> "west"
      [] face = "West" -> "east"
      [] face = "Up" -> "up"
      [] face = "Down" -> "down"

facing_of(face) ==
    CASE face = "North" -> "north"
      [] face = "South" -> "south"
      [] face = "East" -> "east"
      [] face = "West" -> "west"
      [] face = "Up" -> "up"
      [] face = "Down" -> "down"

BlockState_set_facing(state, face) ==
    BlockState_update(state, "facing", StateValue_String(facing_of(face)))

\* self.values.iter(): the (state, value) pairs in the order the HashMap yields them
values_iter(values, order) ==
    [i \in 1..Len(order) |-> <<order[i], values[order[i]]>>]

\* Case::applies: every property the case's condition names is among the
\* supplied pairs with an equal value; a case without condition applies always
Case_applies(case, state_values) ==
    \A key \in DOMAIN case.when :
        \E i \in 1..Len(state_values) :
            state_values[i][1] = key /\ state_values[i][2] = case.when[key]

\* the cases' variants that apply, in the order of the cases
RECURSIVE applicable_variants(_, _)
applicable_variants(cases, state_values) ==
    IF cases = <<>> THEN <<>>
    ELSE (IF Case_applies(Head(cases), state_values)
          THEN <<Head(cases).apply>> ELSE <<>>)
         \o applicable_variants(Tail(cases), state_values)

\* active_variant that takes the first applicable variant when several apply
BlockState_active_variant_first(state, cases, order) ==
    LET variants == applicable_variants(cases, values_iter(state.values, order))
    IN  IF variants = <<>>
        THEN [kind |-> "Panicked", message |-> "no variant found for block state"]
        ELSE [kind |-> "Variant", variant |-> variants[1]]

\* active_variant that takes the last applicable variant when several apply
BlockState_active_variant_last(state, cases, order) ==
    LET variants == applicable_variants(cases, values_iter(state.values, order))
    IN  IF variants = <<>>
        THEN [kind |-> "Panicked", message |-> "no variant found for block state"]
        ELSE [kind |-> "Variant", variant |-> variants[Len(variants)]]

\* [kind |-> "Variant", variant] or [kind |-> "Panicked", message]
BlockState_active_variant(state, cases, order) ==
    LET variants == applicable_variants(cases, values_iter(state.values, order))
    IN  IF Len(variants) > 1
        THEN [kind |-> "Panicked", message |-> "only ony variant is supported at this time"]
        ELSE IF variants = <<>>
        THEN [kind |-> "Panicked", message |-> "no variant found for block state"]
        ELSE [kind |-> "Variant", variant |-> variants[1]]

\* behavior predicate table consulted by WorldState
requires_flat_surface(state) ==
    state.block_type \in {"redstone_wire", "redstone_torch", "repeater"}

is_flat_surface(state) ==
    state.block_type \in {"iron_block", "sandstone"}

----------------------------------------------------------------------------
(* WorldState *)

WorldState_new(bounds) == [bounds |-> bounds, positions |-> <<>>]

\* is_in_bounds without the upper check on x
is_in_bounds_no_upper_x(ws, pos) ==
    LET low == ws.bounds[1]
        high == ws.bounds[2]
    IN  /\ low.x <= pos.x
        /\ low.y <= pos.y
        /\ pos.y <= high.y
        /\ low.z <= pos.z
        /\ pos.z <= high.z

\* is_in_bounds with the upper bounds taken as exclusive
is_in_bounds_exclusive(ws, pos) ==
    LET low == ws.bounds[1]
        high == ws.bounds[2]
    IN  /\ low.x <= pos.x
        /\ pos.x < high.x
        /\ low.y <= pos.y
        /\ pos.y < high.y
        /\ low.z <= pos.z
        /\ pos.z < high.z

is_in_bounds(ws, pos) ==
    LET low == ws.bounds[1]
        high == ws.bounds[2]
    IN  /\ low.x <= pos.x
        /\ pos.x <= high.x
        /\ low.y <= pos.y
        /\ pos.y <= high.y
        /\ low.z <= pos.z
        /\ pos.z <= high.z

\* is_position_occupied with the comparison inverted (p.pos != pos)
is_position_occupied_ne(ws, pos) ==
    \E i \in 1..Len(ws.positions) : ws.positions[i].pos # pos

is_position_occupied(ws, pos) ==
    \E i \in 1..Len(ws.positions) : ws.positions[i].pos = pos

\* self.positions.iter().find(|p| p.pos == pos): index of the first match, 0 for None
find_position(ws, pos) ==
    IF \E i \in 1..Len(ws.positions) : ws.positions[i].pos = pos
    THEN CHOOSE i \in 1..Len(ws.positions) :
            /\ ws.positions[i].pos = pos
            /\ \A j \in 1..(i - 1) : ws.positions[j].pos # pos
    ELSE 0

\* is_flat_surface taking an absent block for a flat surface (None => true)
WorldState_is_flat_surface_none_true(ws, pos) ==
    LET i == find_position(ws, pos)
    IN  IF i # 0 THEN is_flat_surface(ws.positions[i].state) ELSE TRUE

WorldState_is_flat_surface(ws, pos) ==
    LET i == find_position(ws, pos)
    IN  IF i # 0 THEN is_flat_surface(ws.positions[i].state) ELSE FALSE

\* assert_valid_placement with the support check made before the occupancy check
assert_valid_placement_support_first(ws, pos, state, checks) ==
    IF ~is_in_bounds(ws, pos) THEN "OutOfBounds"
    ELSE IF requires_flat_surface(state)
            /\ ~WorldState_is_flat_surface(ws, IntVec3_add(pos, NEG_Y))
         THEN "NotAFlatSurface"
    ELSE IF is_position_occupied(ws, pos) THEN "PositionOccupied"
    ELSE "Ok"

\* assert_valid_placement whose support check unwraps the block it looks up
assert_valid_placement_unwrap(ws, pos, state, checks) ==
    IF ~is_in_bounds(ws, pos) THEN "OutOfBounds"
    ELSE IF is_position_occupied(ws, pos) THEN "PositionOccupied"
    ELSE IF requires_flat_surface(state)
         THEN IF find_position(ws, IntVec3_add(pos, NEG_Y)) = 0 THEN "Panicked"
              ELSE IF ~WorldState_is_flat_surface(ws, IntVec3_add(pos, NEG_Y))
                   THEN "NotAFlatSurface"
                   ELSE "Ok"
    ELSE "Ok"

\* "Ok" or the InvalidPlacement variant returned; "Panicked" when the addition
\* pos + NEG_Y overflows in a build with overflow checks
assert_valid_placement(ws, pos, state, checks) ==
    IF ~is_in_bounds(ws, pos) THEN "OutOfBounds"
    ELSE IF is_position_occupied(ws, pos) THEN "PositionOccupied"
    ELSE IF requires_flat_surface(state)
         THEN IF checks /\ IntVec3_add_overflows(pos, NEG_Y) THEN "Panicked"
              ELSE IF ~WorldState_is_flat_surface(ws, IntVec3_add(pos, NEG_Y))
                   THEN "NotAFlatSurface"
                   ELSE "Ok"
    ELSE "Ok"

\* insert_block that pushes the block before it validates the placement
WorldState_insert_block_push_first(ws, pos, state, checks) ==
    [ws |-> [ws EXCEPT !.positions =
                Append(ws.positions, [pos |-> pos, state |-> state])],
     result |-> assert_valid_placement(ws, pos, state, checks)]

\* insert_block that puts an accepted block at the front of the list
WorldState_insert_block_insert_front(ws, pos, state, checks) ==
    LET r == assert_valid_placement(ws, pos, state, checks)
    IN  IF r = "Ok"
        THEN [ws |-> [ws EXCEPT !.positions =
                         <<[pos |-> pos, state |-> state]>> \o ws.positions],
              result |-> "Ok"]
        ELSE [ws |-> ws, result |-> r]

\* the WorldState after the call and the value returned
WorldState_insert_block(ws, pos, state, checks) ==
    LET r == assert_valid_placement(ws, pos, state, checks)
    IN  IF r = "Ok"
        THEN [ws |-> [ws EXCEPT !.positions =
                         Append(ws.positions, [pos |-> pos, state |-> state])],
              result |-> "Ok"]
        ELSE [ws |-> ws, result |-> r]

----------------------------------------------------------------------------
(* Timeline *)

WORLD_SIZE == 16

\* Timeline::default numbering its first snapshot 1
Timeline_default_index_one ==
    LET bounds == <<ZERO, IntVec3_mul(ONE, WORLD_SIZE)>>
    IN  [bounds |-> bounds,
         world_states |-> <<[time_index |-> 1, world_state |-> WorldState_new(bounds)]>>,
         random_seed |-> 0]

Timeline_default ==
    LET bounds == <<ZERO, IntVec3_mul(ONE, WORLD_SIZE)>>
    IN  [bounds |-> bounds,
         world_states |-> <<[time_index |-> 0, world_state |-> WorldState_new(bounds)]>>,
         random_seed |-> 0]

\* .iter_mut().find(|(time_index, _)| *time_index == 0): first index, 0 for None
find_time_zero(tl) ==
    IF \E i \in 1..Len(tl.world_states) : tl.world_states[i].time_index = 0
    THEN CHOOSE i \in 1..Len(tl.world_states) :
            /\ tl.world_states[i].time_index = 0
            /\ \A j \in 1..(i - 1) : tl.world_states[j].time_index # 0
    ELSE 0

\* Timeline::insert_block that drops the snapshot's result and returns Ok
Timeline_insert_block_swallow(tl, pos, state, checks) ==
    LET i == find_time_zero(tl)
    IN  IF i = 0 THEN [tl |-> tl, result |-> "Panicked"]
        ELSE LET r == WorldState_insert_block(tl.world_states[i].world_state,
                                              pos, state, checks)
             IN  [tl |-> [tl EXCEPT !.world_states[i].world_state = r.ws],
                  result |-> "Ok"]

\* the Timeline after the call and the value returned; unwrap() of None panics
Timeline_insert_block(tl, pos, state, checks) ==
    LET i == find_time_zero(tl)
    IN  IF i = 0 THEN [tl |-> tl, result |-> "Panicked"]
        ELSE LET r == WorldState_insert_block(tl.world_states[i].world_state,
                                              pos, state, checks)
             IN  [tl |-> [tl EXCEPT !.world_states[i].world_state = r.ws],
                  result |-> r.result]

----------------------------------------------------------------------------
(* Inputs *)

\* iron_block provides a flat surface, glass neither provides nor requires one,
\* repeater and redstone_wire require one
BlockTypes == {"iron_block", "glass", "repeater", "redstone_wire"}

InputStates == {initial_state_for(t) : t \in BlockTypes}

InputPositions ==
    {IntVec3(0, -1, 0), IntVec3(0, 0, 0), IntVec3(0, 1, 0),
     IntVec3(3, 0, 3), IntVec3(3, 1, 3),
     IntVec3(16, 0, 0), IntVec3(17, 0, 0),
     IntVec3(0, I32Min, 0)}

BoundsChoices ==
    {<<ZERO, IntVec3_mul(ONE, WORLD_SIZE)>>,
     <<ZERO, IntVec3(15, 1, 15)>>,
     <<IntVec3(0, I32Min, 0), IntVec3(3, 1, 3)>>}

----------------------------------------------------------------------------
(* User input: key bindings, input modes and tools (src/user_input.rs)      *)
(* The resources a frame works on are gathered in one record                *)
(* [state, selected_tool, ev_ui_command]; input is the frame's              *)
(* [just_pressed, just_released] over mouse buttons and keys.               *)

\* Action and UiCommand values; arg is "" for a variant without payload
Action(name, arg) == [name |-> name, arg |-> arg]

UiCommand(name, arg) == [name |-> name, arg |-> arg]

Binding(action, key, binding_style, modes) ==
    [action |-> action, key |-> key, binding_style |-> binding_style, modes |-> modes]

KeyBindings_default ==
    <<Binding(Action("UseActiveTool", ""), "Mouse.Left", "Hold", <<"Normal">>),
      Binding(Action("ActivateTool", "Destroy"), "Keyboard.X", "Hold", <<"Normal">>),
      Binding(Action("ExitMode", ""), "Keyboard.Escape", "Tap", <<"Normal">>),
      Binding(Action("ToggleBlockPicker", ""), "Keyboard.P", "Tap", <<"Normal">>),
      Binding(Action("RotateBlock", "Left"), "Keyboard.Left", "Tap", <<"PlacingBlock">>),
      Binding(Action("RotateBlock", "Right"), "Keyboard.Right", "Tap", <<"PlacingBlock">>),
      Binding(Action("RotateBlock", "Up"), "Keyboard.Up", "Tap", <<"PlacingBlock">>),
      Binding(Action("RotateBlock", "Down"), "Keyboard.Down", "Tap", <<"PlacingBlock">>),
      Binding(Action("RotateBlock", "Forward"), "Keyboard.Home", "Tap", <<"PlacingBlock">>),
      Binding(Action("RotateBlock", "Back"), "Keyboard.End", "Tap", <<"PlacingBlock">>)>>

\* #[derive(Default)]: Tool::Place and Mode::Normal are the defaults
SelectedTool_default == [active_tool |-> "Place", last_active_tool |-> "Place"]

InputState_default ==
    [mode |-> "Normal", last_mode |-> "Normal", bindings_pressed |-> {}]

push_tool(sel, tool) ==
    IF tool # sel.active_tool
    THEN [active_tool |-> tool, last_active_tool |-> sel.active_tool]
    ELSE sel

pop_tool(sel) == [sel EXCEPT !.active_tool = sel.last_active_tool]

push_mode(st, mode) ==
    IF st.mode # mode
    THEN [st EXCEPT !.last_mode = st.mode, !.mode = mode]
    ELSE st

pop_mode(st) == [st EXCEPT !.mode = st.last_mode]

\* ev_ui_command.send(command)
send(res, command) == [res EXCEPT !.ev_ui_command = Append(@, command)]

\* called when a tap-style binding is pressed and released
dispatch_action(res, action) ==
    CASE action.name = "UseActiveTool" ->
            send(res, IF res.selected_tool.active_tool = "Place"
                      THEN UiCommand("PlaceBlock", "")
                      ELSE UiCommand("DestroyBlock", ""))
      [] action.name = "ActivateTool" ->
            [res EXCEPT !.selected_tool = push_tool(@, action.arg)]
      [] action.name = "ExitMode" -> send(res, UiCommand("CloseBlockPicker", ""))
      [] action.name = "RotateBlock" -> send(res, UiCommand("RotateBlock", action.arg))
      [] action.name = "ToggleBlockPicker" ->
            send(res, UiCommand("ToggleBlockPicker", ""))

\* dispatch_action_start in which UseActiveTool does not change the mode
dispatch_action_start_no_mode(res, action) ==
    CASE action.name = "UseActiveTool" -> res
      [] action.name = "ActivateTool" ->
            [res EXCEPT !.selected_tool = push_tool(@, action.arg)]
      [] action.name = "ExitMode" -> res
      [] action.name = "RotateBlock" -> send(res, UiCommand("RotateBlock", action.arg))
      [] action.name = "ToggleBlockPicker" ->
            send(res, UiCommand("OpenBlockPicker", ""))

\* dispatch_action_start in which UseActiveTool changes the mode for any tool
dispatch_action_start_any_tool(res, action) ==
    CASE action.name = "UseActiveTool" ->
            [res EXCEPT !.state = push_mode(@, "PlacingBlock")]
      [] action.name = "ActivateTool" ->
            [res EXCEPT !.selected_tool = push_tool(@, action.arg)]
      [] action.name = "ExitMode" -> res
      [] action.name = "RotateBlock" -> send(res, UiCommand("RotateBlock", action.arg))
      [] action.name = "ToggleBlockPicker" ->
            send(res, UiCommand("OpenBlockPicker", ""))

\* called when a hold-style binding is pressed
dispatch_action_start(res, action) ==
    CASE action.name = "UseActiveTool" ->
            IF res.selected_tool.active_tool = "Place"
            THEN [res EXCEPT !.state = push_mode(@, "PlacingBlock")]
            ELSE res
      [] action.name = "ActivateTool" ->
            [res EXCEPT !.selected_tool = push_tool(@, action.arg)]
      [] action.name = "ExitMode" -> res
      [] action.name = "RotateBlock" -> send(res, UiCommand("RotateBlock", action.arg))
      [] action.name = "ToggleBlockPicker" ->
            send(res, UiCommand("OpenBlockPicker", ""))

\* called when a hold-style binding is released
dispatch_action_finish(res, action) ==
    CASE action.name = "UseActiveTool" ->
            dispatch_action(IF res.state.mode = "PlacingBlock"
                            THEN [res EXCEPT !.state = pop_mode(@)]
                            ELSE res,
                            action)
      [] action.name = "ActivateTool" ->
            [res EXCEPT !.selected_tool = pop_tool(@)]
      [] action.name = "ExitMode" -> dispatch_action(res, action)
      [] action.name = "RotateBlock" -> send(res, UiCommand("RotateBlock", "None"))
      [] action.name = "ToggleBlockPicker" ->
            send(res, UiCommand("CloseBlockPicker", ""))

just_pressed(key, input) == key \in input.just_pressed

just_released(key, input) == key \in input.just_released

matches_mode(mode, binding) ==
    \E i \in 1..Len(binding.modes) : binding.modes[i] = mode

is_binding_pressed(binding, mode, input) ==
    matches_mode(mode, binding) /\ just_pressed(binding.key, input)

\* is_binding_invoked in which a tap-style binding fires when its key goes down
is_binding_invoked_on_press(binding, mode, previously_pressed_bindings, input) ==
    matches_mode(mode, binding) /\ just_pressed(binding.key, input)

is_binding_invoked(binding, mode, previously_pressed_bindings, input) ==
    IF ~matches_mode(mode, binding) THEN FALSE
    ELSE IF binding.binding_style = "Tap"
         THEN /\ just_released(binding.key, input)
              /\ \E action \in previously_pressed_bindings.bindings_pressed :
                    action = binding.action
         ELSE just_pressed(binding.key, input)

is_binding_released(binding, previously_pressed_bindings, input) ==
    IF binding.binding_style = "Tap" THEN FALSE
    ELSE /\ just_released(binding.key, input)
         /\ \E action \in previously_pressed_bindings.bindings_pressed :
               action = binding.action

\* the loop of update_bindings_pressed from binding i on, over the cloned set
RECURSIVE bindings_pressed_from(_, _, _, _, _)
bindings_pressed_from(bindings_pressed, bindings, mode, input, i) ==
    IF i > Len(bindings) THEN bindings_pressed
    ELSE LET binding == bindings[i]
             inserted == IF is_binding_pressed(binding, mode, input)
                         THEN bindings_pressed \cup {binding.action}
                         ELSE bindings_pressed
             removed == IF just_released(binding.key, input)
                        THEN inserted \ {binding.action}
                        ELSE inserted
         IN  bindings_pressed_from(removed, bindings, mode, input, i + 1)

update_bindings_pressed(bindings, st, mode, input) ==
    LET bindings_pressed ==
            bindings_pressed_from(st.bindings_pressed, bindings, mode, input, 1)
    IN  IF bindings_pressed # st.bindings_pressed
        THEN [st EXCEPT !.bindings_pressed = bindings_pressed]
        ELSE st

\* the loop of register_binding_presses from binding i on
RECURSIVE dispatch_from(_, _, _, _, _)
dispatch_from(res, bindings, mode, input, i) ==
    IF i > Len(bindings) THEN res
    ELSE LET binding == bindings[i]
             invoked ==
                 IF is_binding_invoked(binding, mode, res.state, input)
                 THEN IF binding.binding_style = "Tap"
                      THEN dispatch_action(res, binding.action)
                      ELSE dispatch_action_start(res, binding.action)
                 ELSE res
             released ==
                 IF is_binding_released(binding, invoked.state, input)
                 THEN dispatch_action_finish(invoked, binding.action)
                 ELSE invoked
         IN  dispatch_from(released, bindings, mode, input, i + 1)

\* the system run once per frame
register_binding_presses(res, bindings, input) ==
    LET mode == res.state.mode
        dispatched == dispatch_from(res, bindings, mode, input, 1)
    IN  [dispatched EXCEPT
            !.state = update_bindings_pressed(bindings, dispatched.state, mode, input)]

\* how a key is remembered when it is up, or has gone through a release
KeyUp == [mode |-> "", tool |-> ""]

\* the keys that reach the program in the explored runs
InputKeys == {"Mouse.Left", "Keyboard.X", "Keyboard.P"}

\* the resources as UserInputPlugin and the test application insert them
NoInput ==
    /\ input_state = InputState_default
    /\ selected_tool = SelectedTool_default
    /\ keys_down = {}
    /\ frame = [just_pressed |-> {}, just_released |-> {}]
    /\ ev_ui_command = <<>>
    /\ held_since = [key \in InputKeys |-> KeyUp]

----------------------------------------------------------------------------
(* Specifications *)

NoCall ==
    /\ arg_pos = ZERO
    /\ arg_state = initial_state_for("iron_block")
    /\ result = "none"

\* no BlockState is under test
NoBlockState ==
    /\ block_state = initial_state_for("iron_block")
    /\ origin = "initial_state_for"
    /\ call = [op |-> "none"]
    /\ outcome = [kind |-> "none"]
    /\ pre_block_state = block_state

\* a WorldState created by WorldState::new(bounds) and driven directly
Init ==
    /\ \E b \in BoundsChoices : world = WorldState_new(b)
    /\ timeline = Timeline_default
    /\ overflow_checks \in BOOLEAN
    /\ NoCall
    /\ NoBlockState
    /\ NoInput
    /\ pre_world = world
    /\ pre_timeline = timeline

WorldInsertBlock ==
    \E pos \in InputPositions, state \in InputStates :
        LET r == WorldState_insert_block(world, pos, state, overflow_checks)
        IN  /\ Len(r.ws.positions) <= MaxBlocks
            /\ world' = r.ws
            /\ result' = r.result
            /\ arg_pos' = pos
            /\ arg_state' = state
            /\ pre_world' = world
            /\ UNCHANGED <<timeline, overflow_checks, pre_timeline, bs_vars, ui_vars>>

Next == WorldInsertBlock

Spec == Init /\ [][Next]_vars

\* the Timeline resource created by Timeline::default()
InitTimeline ==
    /\ timeline = Timeline_default
    /\ world = WorldState_new(timeline.bounds)
    /\ overflow_checks \in BOOLEAN
    /\ NoCall
    /\ NoBlockState
    /\ NoInput
    /\ pre_world = world
    /\ pre_timeline = timeline

TimelineInsertBlock ==
    \E pos \in InputPositions, state \in InputStates :
        LET r == Timeline_insert_block(timeline, pos, state, overflow_checks)
        IN  /\ \A i \in 1..Len(r.tl.world_states) :
                  Len(r.tl.world_states[i].world_state.positions) <= MaxBlocks
            /\ timeline' = r.tl
            /\ result' = r.result
            /\ arg_pos' = pos
            /\ arg_state' = state
            /\ pre_timeline' = timeline
            /\ UNCHANGED <<world, overflow_checks, pre_world, bs_vars, ui_vars>>

NextTimeline == TimelineInsertBlock

SpecTimeline == InitTimeline /\ [][NextTimeline]_vars

----------------------------------------------------------------------------
(* BlockState: inputs and specifications *)

\* the largest number of cases in a rule table
MaxCases == 3

world_vars == <<world, timeline, overflow_checks, arg_pos, arg_state, result,
                pre_world, pre_timeline>>

\* no WorldState or Timeline is under test
NoWorld ==
    /\ timeline = Timeline_default
    /\ world = WorldState_new(timeline.bounds)
    /\ overflow_checks = FALSE
    /\ NoCall
    /\ pre_world = world
    /\ pre_timeline = timeline

\* the orders in which the elements of a finite set can be listed
Perms(set) ==
    {f \in [1..Cardinality(set) -> set] :
        \A i, j \in 1..Cardinality(set) : f[i] = f[j] => i = j}

\* the comma-joined key=value text of a map, its keys taken in the given order
RECURSIVE serialize(_, _)
serialize(values, order) ==
    IF order = <<>> THEN <<>>
    ELSE <<order[1], "=", values[order[1]].val>>
         \o (IF Len(order) > 1 THEN <<",">> ELSE <<>>)
         \o serialize(values, Tail(order))

SchemaTypes == {"repeater", "redstone_wire", "redstone_torch"}

\* the values the schema allows for a property, as StateValues
AllowedSet(block_type, prop) ==
    LET allowed == state_values_for(block_type)[prop]
    IN  {StateValue_from(allowed[i]) : i \in 1..Len(allowed)}

\* the maps from the given properties to allowed values of the block type
RECURSIVE AllowedMaps(_, _)
AllowedMaps(block_type, props) ==
    IF props = {} THEN {EmptyMap}
    ELSE LET prop == CHOOSE p \in props : TRUE
         IN  {[key \in DOMAIN m \cup {prop} |-> IF key = prop THEN value ELSE m[key]] :
                 m \in AllowedMaps(block_type, props \ {prop}),
                 value \in AllowedSet(block_type, prop)}

\* the states that hold exactly the schema's properties, each with an allowed value
SchemaValidStates(block_type) ==
    {[block_type |-> block_type, values |-> v] :
        v \in AllowedMaps(block_type, DOMAIN state_values_for(block_type))}

\* every serialization of every schema-valid state
ValidTexts ==
    UNION {{<<st.block_type, serialize(st.values, order)>> :
               order \in Perms(DOMAIN st.values)} :
           st \in UNION {SchemaValidStates(t) : t \in SchemaTypes}}

\* texts that are not the serialization of a schema-valid state
OtherTexts ==
    {<<"sandstone", <<>>>>,
     <<"repeater", <<>>>>,
     <<"repeater", <<",", ",">>>>,
     <<"repeater", <<"facing", "=", "south">>>>,
     <<"repeater", <<",", "facing", "=", "up", ",", ",", "locked", "=", "maybe", ",">>>>,
     <<"repeater", <<"foo", "=", "true">>>>,
     <<"repeater", <<"delay", "=", "1", ",", "delay", "=", "2">>>>,
     <<"repeater", <<"delay", "=", "1", "=", "2">>>>,
     <<"repeater", <<"delay", "=">>>>,
     <<"repeater", <<"delay">>>>,
     <<"repeater", <<"delay", "=", "1", ",", "facing">>>>,
     <<"redstone_torch", <<"lit", ",", "lit", "=", "true">>>>}

ConstructCalls ==
    {[op |-> "initial_state_for", block_type |-> t] :
        t \in SchemaTypes \cup {"sandstone", "iron_block"}}
    \cup {[op |-> "new", block_type |-> c[1], text |-> c[2]] :
             c \in ValidTexts \cup OtherTexts}

\* a constructor call that has not run yet
InitConstruct ==
    /\ NoWorld
    /\ NoInput
    /\ call \in ConstructCalls
    /\ outcome = [kind |-> "pending"]
    /\ origin = "none"
    /\ block_state = initial_state_for("iron_block")
    /\ pre_block_state = block_state

InitialStateFor ==
    /\ outcome.kind = "pending"
    /\ call.op = "initial_state_for"
    /\ IF initial_state_for_panics(call.block_type)
       THEN /\ outcome' = [kind |-> "Panicked",
                           message |-> "swap_remove index is out of bounds"]
            /\ UNCHANGED <<block_state, origin>>
       ELSE /\ block_state' = initial_state_for(call.block_type)
            /\ origin' = "initial_state_for"
            /\ outcome' = [kind |-> "Ok"]
    /\ pre_block_state' = block_state
    /\ UNCHANGED <<call, world_vars, ui_vars>>

New ==
    /\ outcome.kind = "pending"
    /\ call.op = "new"
    /\ IF parse_panics(call.text)
       THEN /\ outcome' = [kind |-> "Panicked", message |-> "index out of bounds"]
            /\ UNCHANGED <<block_state, origin>>
       ELSE /\ block_state' = BlockState_new(call.block_type, call.text)
            /\ origin' = "new"
            /\ outcome' = [kind |-> "Ok"]
    /\ pre_block_state' = block_state
    /\ UNCHANGED <<call, world_vars, ui_vars>>

NextConstruct == InitialStateFor \/ New

SpecConstruct == InitConstruct /\ [][NextConstruct]_vars

\* the constructor calls a BlockState under update starts from
StartCalls ==
    {[op |-> "initial_state_for", block_type |-> t] :
        t \in SchemaTypes \cup {"sandstone", "iron_block"}}
    \cup {[op |-> "new", block_type |-> c[1], text |-> c[2]] :
             c \in {<<"repeater", <<>>>>,
                    <<"repeater", <<"facing", "=", "south">>>>,
                    <<"repeater", <<"delay", "=", "2", ",", "facing", "=", "north", ",",
                                    "locked", "=", "false", ",", "powered", "=", "true">>>>,
                    <<"redstone_torch", <<"lit", "=", "true">>>>}}

InputProps == {"delay", "facing", "locked", "powered", "lit", "east", "foo"}

InputValues ==
    {StateValue_String(v) :
        v \in {"1", "2", "south", "west", "up", "true", "none", "side|up", "side"}}
    \cup {StateValue_Bool(TRUE), StateValue_Bool(FALSE)}

\* a BlockState right after its construction
InitBlockState ==
    /\ NoWorld
    /\ NoInput
    /\ call \in StartCalls
    /\ block_state = IF call.op = "new"
                     THEN BlockState_new(call.block_type, call.text)
                     ELSE initial_state_for(call.block_type)
    /\ origin = call.op
    /\ outcome = [kind |-> "Ok"]
    /\ pre_block_state = block_state

Update ==
    \E prop \in InputProps, value \in InputValues :
        LET r == BlockState_update(block_state, prop, value)
        IN  /\ block_state' = r.state
            /\ outcome' = [kind |-> r.result]
            /\ call' = [op |-> "update", prop |-> prop, value |-> value]
            /\ pre_block_state' = block_state
            /\ UNCHANGED <<origin, world_vars, ui_vars>>

SetFacing ==
    \E face \in BlockFaces :
        LET r == BlockState_set_facing(block_state, face)
        IN  /\ block_state' = r.state
            /\ outcome' = [kind |-> r.result]
            /\ call' = [op |-> "set_facing", face |-> face]
            /\ pre_block_state' = block_state
            /\ UNCHANGED <<origin, world_vars, ui_vars>>

NextBlockState == Update \/ SetFacing

SpecBlockState == InitBlockState /\ [][NextBlockState]_vars

\* a case of a rule table: the property values it requires and its variant
Case(when, apply) == [when |-> when, apply |-> apply]

CasePool ==
    {Case([powered |-> StateValue_Bool(FALSE)], "repeater_1tick"),
     Case([powered |-> StateValue_Bool(TRUE)], "repeater_1tick_on"),
     Case([powered |-> StateValue_Bool(TRUE), locked |-> StateValue_Bool(TRUE)],
          "repeater_1tick_on_locked"),
     Case([lit |-> StateValue_Bool(TRUE)], "redstone_torch"),
     Case(EmptyMap, "sandstone")}

RuleTables == UNION {[1..n -> CasePool] : n \in 0..MaxCases}

VariantStates ==
    {initial_state_for("repeater"),
     BlockState_update(initial_state_for("repeater"), "powered", StateValue_Bool(TRUE)).state,
     BlockState_update(
         BlockState_update(initial_state_for("repeater"), "powered", StateValue_Bool(TRUE)).state,
         "locked", StateValue_Bool(TRUE)).state,
     BlockState_update(initial_state_for("redstone_torch"), "lit", StateValue_Bool(TRUE)).state,
     initial_state_for("sandstone")}

\* a BlockState and a rule table whose variant has not been resolved yet
InitVariant ==
    /\ NoWorld
    /\ NoInput
    /\ block_state \in VariantStates
    /\ origin = "initial_state_for"
    /\ \E cases \in RuleTables : call = [op |-> "active_variant", cases |-> cases]
    /\ outcome = [kind |-> "pending"]
    /\ pre_block_state = block_state

ActiveVariant ==
    /\ outcome.kind = "pending"
    /\ call.op = "active_variant"
    /\ \E order \in Perms(DOMAIN block_state.values) :
          outcome' = BlockState_active_variant(block_state, call.cases, order)
    /\ pre_block_state' = block_state
    /\ UNCHANGED <<block_state, origin, call, world_vars, ui_vars>>

NextVariant == ActiveVariant

SpecVariant == InitVariant /\ [][NextVariant]_vars

----------------------------------------------------------------------------
(* Vocabulary of the properties, stated on the data and not through the    *)
(* operators that model the code                                           *)

Errors == {"OutOfBounds", "PositionOccupied", "NotAFlatSurface"}

Called == result # "none"

StoredAt(ws) == {ws.positions[i].pos : i \in 1..Len(ws.positions)}

Inside(ws, pos) ==
    /\ ws.bounds[1].x <= pos.x /\ pos.x <= ws.bounds[2].x
    /\ ws.bounds[1].y <= pos.y /\ pos.y <= ws.bounds[2].y
    /\ ws.bounds[1].z <= pos.z /\ pos.z <= ws.bounds[2].z

Occupied(ws, pos) == pos \in StoredAt(ws)

\* entry e of a position list lies directly below pos (same x and z, y one less)
DirectlyBelow(e, pos) ==
    /\ e.pos.x = pos.x
    /\ e.pos.z = pos.z
    /\ e.pos.y + 1 = pos.y

BlockBelow(ws, pos) ==
    \E i \in 1..Len(ws.positions) : DirectlyBelow(ws.positions[i], pos)

FlatBlockBelow(ws, pos) ==
    \E i \in 1..Len(ws.positions) :
        /\ DirectlyBelow(ws.positions[i], pos)
        /\ ws.positions[i].state.block_type \in {"iron_block", "sandstone"}

NeedsSupport(state) ==
    state.block_type \in {"redstone_wire", "redstone_torch", "repeater"}

Bounds16 == <<IntVec3(0, 0, 0), IntVec3(16, 16, 16)>>

----------------------------------------------------------------------------
(* WorldState::insert_block, checked under Spec *)

\* C1: insert_block checks bounds, then occupancy, then support and reports
\* the first check that fails: a position outside the bounds gives OutOfBounds
\* whatever else is wrong, an occupied position inside the bounds gives
\* PositionOccupied even for a block that also lacks support, and
\* NotAFlatSurface is only reported for unoccupied positions inside the bounds.
C1_CheckOrder ==
    Called =>
        /\ ~Inside(pre_world, arg_pos) => result = "OutOfBounds"
        /\ (Inside(pre_world, arg_pos) /\ Occupied(pre_world, arg_pos))
              => result = "PositionOccupied"
        /\ result = "NotAFlatSurface"
              => (Inside(pre_world, arg_pos) /\ ~Occupied(pre_world, arg_pos))

\* a block that needs support was inserted at the occupied (3,0,3), where the
\* occupant below it gives no support either
C1_Witness ==
    /\ result = "PositionOccupied"
    /\ arg_pos = IntVec3(3, 0, 3)
    /\ arg_state.block_type = "redstone_wire"
    /\ ~FlatBlockBelow(pre_world, arg_pos)
    /\ \E i \in 1..Len(pre_world.positions) :
          /\ pre_world.positions[i].pos = arg_pos
          /\ pre_world.positions[i].state.block_type = "glass"

\* C2: a block that requires a flat surface, inserted at an unoccupied
\* position inside the bounds, is accepted exactly when the cell directly
\* below (y - 1) holds a flat-surface block, and gets NotAFlatSurface otherwise.
C2_SupportFromBelow ==
    (Called /\ NeedsSupport(arg_state)
        /\ Inside(pre_world, arg_pos) /\ ~Occupied(pre_world, arg_pos))
    => /\ result = "Ok" <=> FlatBlockBelow(pre_world, arg_pos)
       /\ result # "Ok" => result = "NotAFlatSurface"

\* C3: a rejected insert_block leaves the WorldState (bounds and the whole
\* position list, in order) exactly as it was before the call.
C3_RejectedUnchanged ==
    result \in Errors => world = pre_world

\* each kind of rejection can be met on a world that already holds a block
C3_Witness ==
    /\ result = "NotAFlatSurface"
    /\ Len(pre_world.positions) >= 1
    /\ world = pre_world

\* C4: no two entries of the position list have the same pos.
C4_UniquePositions ==
    \A i, j \in 1..Len(world.positions) :
        world.positions[i].pos = world.positions[j].pos => i = j

\* two blocks are stored and a third insert at one of their positions was rejected
C4_Witness ==
    /\ Len(world.positions) >= 2
    /\ result = "PositionOccupied"

\* C5: every stored position lies within the bounds on each axis, and the
\* bounds are the same after every call as before it.
C5_StoredInsideBounds ==
    /\ \A i \in 1..Len(world.positions) : Inside(world, world.positions[i].pos)
    /\ world.bounds = pre_world.bounds

\* a block is stored on the maximum bound and an insert outside was rejected
C5_Witness ==
    /\ \E i \in 1..Len(world.positions) :
          world.positions[i].pos.x = world.bounds[2].x
    /\ result = "OutOfBounds"

\* C6 as stated: with bounds (0,0,0)-(16,16,16), insert_block at (17,0,0)
\* returns OutOfBounds and insert_block at (16,0,0) succeeds, for any block state.
C6_Original ==
    (Called /\ pre_world.bounds = Bounds16) =>
        /\ arg_pos = IntVec3(17, 0, 0) => result = "OutOfBounds"
        /\ arg_pos = IntVec3(16, 0, 0) => result = "Ok"

\* C6 (amended): with bounds (0,0,0)-(16,16,16), insert_block at (17,0,0)
\* returns OutOfBounds for any block state; insert_block at (16,0,0) is never
\* OutOfBounds: it returns PositionOccupied when (16,0,0) is occupied, else
\* NotAFlatSurface when the block type requires a flat surface, else it succeeds.
C6_BoundsInclusive ==
    (Called /\ pre_world.bounds = Bounds16) =>
        /\ arg_pos = IntVec3(17, 0, 0) => result = "OutOfBounds"
        /\ arg_pos = IntVec3(16, 0, 0) =>
              result = IF Occupied(pre_world, arg_pos) THEN "PositionOccupied"
                       ELSE IF NeedsSupport(arg_state) THEN "NotAFlatSurface"
                       ELSE "Ok"

\* a block was stored at (16,0,0), on the maximum x bound
C6_Witness ==
    /\ pre_world.bounds = Bounds16
    /\ arg_pos = IntVec3(16, 0, 0)
    /\ result = "Ok"
    /\ Len(world.positions) = Len(pre_world.positions) + 1

\* C7: a block that requires a flat surface, inserted at an unoccupied
\* position inside the bounds with no block in the cell directly below, gets
\* NotAFlatSurface, also when that cell lies outside the bounds.
C7_NoBlockBelow ==
    (Called /\ NeedsSupport(arg_state)
        /\ Inside(pre_world, arg_pos) /\ ~Occupied(pre_world, arg_pos)
        /\ ~BlockBelow(pre_world, arg_pos))
    => result = "NotAFlatSurface"

\* a repeater at (0,0,0), whose cell below (0,-1,0) is outside the bounds
C7_Witness ==
    /\ result = "NotAFlatSurface"
    /\ arg_pos = IntVec3(0, 0, 0)
    /\ arg_state.block_type = "repeater"
    /\ pre_world.bounds[1] = IntVec3(0, 0, 0)
    /\ ~Inside(pre_world, IntVec3(0, -1, 0))
    /\ ~BlockBelow(pre_world, arg_pos)

\* C8: every insert_block call returns, with exactly one of the four outcomes
\* Ok, OutOfBounds, PositionOccupied, NotAFlatSurface (it never panics).
C8_FourOutcomes ==
    Called => result \in {"Ok", "OutOfBounds", "PositionOccupied", "NotAFlatSurface"}

\* a support-requiring block at the smallest i32 height, where computing the
\* cell to examine is the only arithmetic of the call
C8_Witness ==
    /\ Called
    /\ arg_pos = IntVec3(0, I32Min, 0)
    /\ NeedsSupport(arg_state)
    /\ Inside(pre_world, arg_pos)
    /\ overflow_checks

----------------------------------------------------------------------------
(* Timeline::insert_block, checked under SpecTimeline *)

TimeIndices(tl) == [i \in 1..Len(tl.world_states) |-> tl.world_states[i].time_index]

\* C9: Timeline.insert_block returns what insert_block on its time-0
\* WorldState returns and changes that snapshot in exactly that way; bounds,
\* random_seed, the snapshot time indices and every other snapshot stay as
\* they were.
C9_DelegatesToTimeZero ==
    Called =>
        \E i \in 1..Len(pre_timeline.world_states) :
            /\ pre_timeline.world_states[i].time_index = 0
            /\ LET before == pre_timeline.world_states[i].world_state
                   after == timeline.world_states[i].world_state
                   expect == assert_valid_placement(before, arg_pos, arg_state,
                                                    overflow_checks)
               IN  /\ result = expect
                   /\ after.bounds = before.bounds
                   /\ after.positions =
                         IF expect = "Ok"
                         THEN before.positions \o <<[pos |-> arg_pos, state |-> arg_state]>>
                         ELSE before.positions
            /\ timeline.bounds = pre_timeline.bounds
            /\ timeline.random_seed = pre_timeline.random_seed
            /\ TimeIndices(timeline) = TimeIndices(pre_timeline)
            /\ \A j \in 1..Len(timeline.world_states) :
                  j # i => timeline.world_states[j] = pre_timeline.world_states[j]

\* both a forwarded rejection and a forwarded success are visible: the time-0
\* snapshot holds a block and the last call on it was rejected
C9_Witness ==
    /\ result = "NotAFlatSurface"
    /\ \E i \in 1..Len(timeline.world_states) :
          /\ timeline.world_states[i].time_index = 0
          /\ Len(timeline.world_states[i].world_state.positions) >= 1

\* C10: a new Timeline holds exactly one empty WorldState at time index 0;
\* in every reachable Timeline the time indices are strictly increasing, a
\* snapshot with index 0 exists, and insert_block never aborts on the lookup.
C10_TimeZeroExists ==
    /\ ~Called =>
          /\ Len(timeline.world_states) = 1
          /\ timeline.world_states[1].time_index = 0
          /\ timeline.world_states[1].world_state.positions = <<>>
    /\ \A i, j \in 1..Len(timeline.world_states) :
          i < j => timeline.world_states[i].time_index < timeline.world_states[j].time_index
    /\ \E i \in 1..Len(timeline.world_states) : timeline.world_states[i].time_index = 0
    /\ result # "Panicked"

\* insert_block found the time-0 snapshot and stored a block in it
C10_Witness ==
    /\ result = "Ok"
    /\ Len(timeline.world_states) = 1
    /\ Len(timeline.world_states[1].world_state.positions) >= 1

----------------------------------------------------------------------------
(* BlockState: vocabulary of the properties *)

Updated == call.op = "update"

\* the schema declares the property for the block type
Declared(block_type, prop) == prop \in DOMAIN state_values_for(block_type)

\* the property is declared and the value is on its allowed-value list
Legal(block_type, prop, value) ==
    /\ Declared(block_type, prop)
    /\ value \in AllowedSet(block_type, prop)

\* reading the property from the state yields the value
Reads(state, prop, value) ==
    /\ prop \in DOMAIN state.values
    /\ state.values[prop] = value

\* the two states agree on every property other than prop
SameElsewhere(before, after, prop) ==
    /\ after.block_type = before.block_type
    /\ DOMAIN after.values \ {prop} = DOMAIN before.values \ {prop}
    /\ \A key \in DOMAIN before.values \ {prop} : after.values[key] = before.values[key]

LowerCaseName ==
    [North |-> "north", South |-> "south", East |-> "east",
     West |-> "west", Up |-> "up", Down |-> "down"]

RepeaterDefaultText ==
    <<"delay", "=", "1", ",", "facing", "=", "south", ",",
      "locked", "=", "false", ",", "powered", "=", "false">>

----------------------------------------------------------------------------
(* BlockState::update and set_facing, checked under SpecBlockState *)

\* C11: update(property, value) succeeds and changes the state (the property
\* then holds the value) exactly when the property is declared for the block
\* type and the value is on its allowed-value list; in every other case it
\* fails and the BlockState is identical to what it was before the call.
C11_UpdateIffLegal ==
    Updated =>
        IF Legal(pre_block_state.block_type, call.prop, call.value)
        THEN /\ outcome.kind = "Ok"
             /\ Reads(block_state, call.prop, call.value)
        ELSE /\ outcome.kind = "Err"
             /\ block_state = pre_block_state

\* C12: after update(property, value) returns success, reading the property
\* yields the value and every other property is unchanged, for every state,
\* also one built by new that does not hold the property yet.
C12_UpdateSetsValue ==
    (Updated /\ outcome.kind = "Ok") =>
        /\ Reads(block_state, call.prop, call.value)
        /\ SameElsewhere(pre_block_state, block_state, call.prop)

\* C14: a BlockState built by initial_state_for holds, after any sequence of
\* update and set_facing calls, exactly the properties the schema declares for
\* its block type, each with a value of its allowed-value list.
C14_SchemaValid ==
    origin = "initial_state_for" =>
        /\ DOMAIN block_state.values = DOMAIN state_values_for(block_state.block_type)
        /\ \A prop \in DOMAIN block_state.values :
              block_state.values[prop] \in AllowedSet(block_state.block_type, prop)

\* a repeater from initial_state_for that was updated and then refused a value
C14_Witness ==
    /\ origin = "initial_state_for"
    /\ block_state.block_type = "repeater"
    /\ block_state # initial_state_for("repeater")
    /\ outcome.kind = "Err"
    /\ Updated
    /\ Declared("repeater", call.prop)

\* C15: set_facing(face) returns what update("facing", name) returns and
\* leaves the state update leaves, name being the lower-case name of the face;
\* on the initial repeater state set_facing(West) succeeds, facing becomes
\* "west" and delay, locked and powered are unchanged.
C15_SetFacingIsUpdate ==
    call.op = "set_facing" =>
        /\ LET r == BlockState_update(pre_block_state, "facing",
                                      StateValue_String(LowerCaseName[call.face]))
           IN  /\ outcome.kind = r.result
               /\ block_state = r.state
        /\ (pre_block_state = initial_state_for("repeater") /\ call.face = "West") =>
              /\ outcome.kind = "Ok"
              /\ block_state.values["facing"] = StateValue_String("west")
              /\ SameElsewhere(pre_block_state, block_state, "facing")

\* set_facing(West) was applied to the initial repeater state
C15_Witness ==
    /\ call.op = "set_facing"
    /\ call.face = "West"
    /\ pre_block_state = initial_state_for("repeater")
    /\ block_state.values["facing"].val = "west"

\* C16: set_facing with a face the block type does not allow reports no error
\* to the caller, and facing keeps the value it had before the call.
C16_DisallowedFaceSilent ==
    (/\ call.op = "set_facing"
     /\ ~Legal(pre_block_state.block_type, "facing",
               StateValue_String(LowerCaseName[call.face])))
    => /\ outcome.kind = "Ok"
       /\ "facing" \in DOMAIN pre_block_state.values =>
             Reads(block_state, "facing", pre_block_state.values["facing"])
       /\ "facing" \notin DOMAIN pre_block_state.values =>
             "facing" \notin DOMAIN block_state.values

\* C17: update with a property that is not declared for the block type never
\* adds the key: the state's property names are the same after the call.
C17_UndeclaredNeverAdded ==
    (Updated /\ ~Declared(pre_block_state.block_type, call.prop)) =>
        DOMAIN block_state.values = DOMAIN pre_block_state.values

\* update("foo", true) on a repeater
C17_Witness ==
    /\ Updated
    /\ call.prop = "foo"
    /\ call.value = StateValue_Bool(TRUE)
    /\ pre_block_state.block_type = "repeater"
    /\ "foo" \notin DOMAIN block_state.values

----------------------------------------------------------------------------
(* BlockState::initial_state_for and new, checked under SpecConstruct *)

Constructed(op) == call.op = op /\ outcome.kind # "pending"

\* C13: for a block type with a non-empty schema, initial_state_for returns a
\* state that holds exactly the schema's properties, each with the first
\* element of its allowed-value list; for "repeater" it equals the state
\* parsed from "delay=1,facing=south,locked=false,powered=false".
C13_InitialStateDefaults ==
    (Constructed("initial_state_for") /\ state_values_for(call.block_type) # EmptyMap) =>
        LET schema == state_values_for(call.block_type)
        IN  /\ outcome.kind = "Ok"
            /\ block_state.block_type = call.block_type
            /\ DOMAIN block_state.values = DOMAIN schema
            /\ \A prop \in DOMAIN schema :
                  /\ block_state.values[prop].val = Head(schema[prop]).val
                  /\ block_state.values[prop].tag =
                        IF Head(schema[prop]).tag = "B" THEN "Bool" ELSE "String"
            /\ call.block_type = "repeater" =>
                  /\ ~parse_panics(RepeaterDefaultText)
                  /\ block_state = BlockState_new("repeater", RepeaterDefaultText)

\* initial_state_for("repeater") has run
C13_Witness ==
    /\ Constructed("initial_state_for")
    /\ call.block_type = "repeater"
    /\ block_state.values["delay"] = StateValue_String("1")

\* C18: new(block_type, text) on the comma-joined key=value text of a
\* schema-valid state, its properties in any order, rebuilds that state; the
\* empty text gives the empty state; every value read is a boolean exactly when
\* its text is true or false, and a string otherwise.
C18_ParseRoundTrip ==
    Constructed("new") =>
        /\ \A st \in SchemaValidStates(call.block_type) :
              \A order \in Perms(DOMAIN st.values) :
                  call.text = serialize(st.values, order) =>
                      (outcome.kind = "Ok" /\ block_state = st)
        /\ call.text = <<>> =>
              (outcome.kind = "Ok" /\ DOMAIN block_state.values = {})
        /\ outcome.kind = "Ok" =>
              \A prop \in DOMAIN block_state.values :
                  block_state.values[prop].tag =
                      IF block_state.values[prop].val \in {"true", "false"}
                      THEN "Bool" ELSE "String"

\* a repeater text with mixed boolean and string values was parsed
C18_Witness ==
    /\ Constructed("new")
    /\ call.text = <<"powered", "=", "true", ",", "locked", "=", "false", ",",
                     "facing", "=", "north", ",", "delay", "=", "2">>
    /\ block_state \in SchemaValidStates("repeater")

----------------------------------------------------------------------------
(* BlockState::active_variant, checked under SpecVariant *)

Resolved == call.op = "active_variant" /\ outcome.kind # "pending"

\* the case's condition set matches the state's property values
Matches(case, state) ==
    \A key \in DOMAIN case.when :
        key \in DOMAIN state.values /\ state.values[key] = case.when[key]

Matching(cases, state) == {i \in 1..Len(cases) : Matches(cases[i], state)}

\* the listings of the cases in every order
Reorderings(cases) ==
    {[i \in 1..Len(cases) |-> cases[p[i]]] : p \in Perms(1..Len(cases))}

\* C19: active_variant returns a variant only when exactly one case matches
\* the state, and then that case's variant; with no matching case or with
\* two or more it signals a fatal failure and returns no variant.
C19_ExactlyOneMatch ==
    Resolved =>
        LET m == Matching(call.cases, block_state)
        IN  IF Cardinality(m) = 1
            THEN outcome = [kind |-> "Variant",
                            variant |-> call.cases[CHOOSE i \in m : TRUE].apply]
            ELSE outcome.kind = "Panicked"

\* the second of three cases is the only match of a repeater state
C19_Witness ==
    /\ Resolved
    /\ Len(call.cases) = 3
    /\ Matching(call.cases, block_state) = {2}
    /\ block_state.block_type = "repeater"
    /\ outcome.kind = "Variant"

\* C20: the outcome of variant resolution (the variant returned or the
\* failure signalled) is the same in whatever order the cases are listed and
\* in whatever order the state's properties are iterated.
C20_OrderIndependent ==
    Resolved =>
        \A cases \in Reorderings(call.cases) :
            \A order \in Perms(DOMAIN block_state.values) :
                BlockState_active_variant(block_state, cases, order) = outcome

\* two cases with different variants match a state with several properties
C20_Witness ==
    /\ Resolved
    /\ Cardinality(DOMAIN block_state.values) >= 2
    /\ \E i, j \in Matching(call.cases, block_state) :
          call.cases[i].apply # call.cases[j].apply
    /\ outcome.kind = "Panicked"

----------------------------------------------------------------------------
(* The static schema *)

\* the block types constructed in the explored runs, known to the schema or not
ConstructedTypes == {c.block_type : c \in ConstructCalls}

\* a call of initial_state_for has returned or panicked
InitialStateForDone == call.op = "initial_state_for" /\ outcome.kind # "pending"

\* C21: every allowed-value list of the schema is non-empty and its first
\* element is the default: initial_state_for never fails for any block type
\* and stores the first element of every list. (The schema is a function that
\* builds its lists anew at every call; no operation holds or alters them.)
C21_ListsNonEmpty ==
    /\ \A t \in ConstructedTypes :
          \A prop \in DOMAIN state_values_for(t) : Len(state_values_for(t)[prop]) >= 1
    /\ InitialStateForDone =>
          /\ outcome.kind = "Ok"
          /\ origin = "initial_state_for"
          /\ \A prop \in DOMAIN state_values_for(call.block_type) :
                /\ prop \in DOMAIN block_state.values
                /\ block_state.values[prop].val
                      = state_values_for(call.block_type)[prop][1].val

\* initial_state_for has built the torch state from the one-property schema
C21_Witness ==
    /\ InitialStateForDone
    /\ call.block_type = "redstone_torch"
    /\ outcome.kind = "Ok"
    /\ block_state.values = [lit |-> StateValue_Bool(FALSE)]

\* the block state was built by initial_state_for for a type without schema
Stateless ==
    /\ origin = "initial_state_for"
    /\ block_state.block_type \notin SchemaTypes

\* C22: for a block type the schema does not know the allowed values are the
\* empty mapping, initial_state_for gives the empty state, and every update
\* (and set_facing) on that state fails and leaves it empty.
C22_StatelessStaysEmpty ==
    Stateless =>
        /\ DOMAIN state_values_for(block_state.block_type) = {}
        /\ DOMAIN block_state.values = {}
        /\ call.op \in {"update", "set_facing"} => outcome.kind = "Err"

\* an update of an iron block's empty state was rejected
C22_Witness ==
    /\ Stateless
    /\ block_state.block_type = "iron_block"
    /\ call.op = "update"
    /\ call.prop = "lit"
    /\ outcome.kind = "Err"
    /\ DOMAIN block_state.values = {}

----------------------------------------------------------------------------
(* Further properties of insert_block, update and parse *)

\* C27: a successful insert_block appends one WorldPosition holding the given
\* pos and state at the end of the list; the entries stored before keep their
\* pos, state and place, and the list is one longer.
C27_AppendsAtEnd ==
    result = "Ok" =>
        /\ Len(world.positions) = Len(pre_world.positions) + 1
        /\ world.positions[Len(world.positions)] = [pos |-> arg_pos, state |-> arg_state]
        /\ \A i \in 1..Len(pre_world.positions) :
              world.positions[i] = pre_world.positions[i]
        /\ world.bounds = pre_world.bounds

\* a second block of another type was accepted
C27_Witness ==
    /\ result = "Ok"
    /\ Len(pre_world.positions) = 1
    /\ pre_world.positions[1].state.block_type # arg_state.block_type
    /\ world.positions[2].pos = arg_pos

\* C28: every stored block whose type requires a flat surface has, directly
\* below it (y - 1), a stored block whose type is a flat surface.
C28_StoredBlocksSupported ==
    \A i \in 1..Len(world.positions) :
        NeedsSupport(world.positions[i].state)
            => FlatBlockBelow(world, world.positions[i].pos)

\* no block whose type requires a flat surface is ever stored
C28_NoneStored ==
    \A i \in 1..Len(world.positions) : ~NeedsSupport(world.positions[i].state)

\* the allowed value and the supplied value are of the same kind and equal
SameTagged(allowed, value) ==
    \/ allowed.tag = "B" /\ value.tag = "Bool" /\ allowed.val = value.val
    \/ allowed.tag = "S" /\ value.tag = "String" /\ allowed.val = value.val

WireDirections == {"east", "north", "south", "west"}

\* C29: update accepts a value of a declared property exactly when an allowed
\* value of the same kind equals it: on a repeater "locked" takes the booleans
\* and never the string "true"; a direction of redstone_wire takes the strings
\* "none" and "side|up" and neither "side" nor "up".
C29_TypeTaggedEquality ==
    Updated =>
        LET block_type == pre_block_state.block_type
            allowed == state_values_for(block_type)
            accepted == outcome.kind = "Ok"
        IN  /\ call.prop \in DOMAIN allowed =>
                  (accepted <=> \E i \in 1..Len(allowed[call.prop]) :
                                    SameTagged(allowed[call.prop][i], call.value))
            /\ (block_type = "repeater" /\ call.prop = "locked") =>
                  (accepted <=> call.value.tag = "Bool")
            /\ (block_type = "redstone_wire" /\ call.prop \in WireDirections) =>
                  (accepted <=> call.value \in {StateValue_String("none"),
                                                StateValue_String("side|up")})

\* the string "true" was refused for "locked" of a repeater
C29_Witness ==
    /\ Updated
    /\ pre_block_state.block_type = "repeater"
    /\ call.prop = "locked"
    /\ call.value = StateValue_String("true")
    /\ outcome.kind = "Err"

\* some non-empty entry between commas (or the ends of the text) has no '='
Malformed(text) ==
    \E a, b \in 0..(Len(text) + 1) :
        /\ a + 1 < b
        /\ a = 0 \/ text[a] = ","
        /\ b = Len(text) + 1 \/ text[b] = ","
        /\ \A k \in (a + 1)..(b - 1) : text[k] \notin {",", "="}

\* the text has no entry other than empty ones
OnlyEmptyEntries(text) == \A k \in 1..Len(text) : text[k] = ","

\* C30: new aborts on every text in which a non-empty comma-separated entry
\* has no '=' and then produces no state; a text made of empty entries only
\* (the empty text, commas alone) is parsed without failure to the empty state.
C30_MalformedFailsFast ==
    Constructed("new") =>
        /\ Malformed(call.text) =>
              /\ outcome.kind = "Panicked"
              /\ origin = "none"
              /\ block_state = pre_block_state
        /\ OnlyEmptyEntries(call.text) =>
              /\ outcome.kind = "Ok"
              /\ DOMAIN block_state.values = {}
        /\ outcome.kind = "Panicked" => Malformed(call.text)

\* a text whose second entry has no '=' made new abort
C30_Witness ==
    /\ Constructed("new")
    /\ call.text = <<"delay", "=", "1", ",", "facing">>
    /\ outcome.kind = "Panicked"
    /\ origin = "none"

----------------------------------------------------------------------------------------------------------------------------------------
(* User input: frames and specification *)

\* the largest number of keys that have an event in one frame
MaxKeysPerFrame == 2

\* One frame: some keys have an event, and those in twice have two. A key that
\* is up goes down, or goes down and up again; a key that is down goes up, or
\* goes up and down again. The system then runs once on what the frame left
\* in just_pressed and just_released.
RegisterBindingPresses ==
    \E keys \in SUBSET InputKeys :
        /\ Cardinality(keys) <= MaxKeysPerFrame
        /\ \E twice \in SUBSET keys :
              LET went_down == (keys \ keys_down) \ twice
                  went_up == (keys \cap keys_down) \ twice
                  input == [just_pressed |-> went_down \cup twice,
                            just_released |-> went_up \cup twice]
                  res == [state |-> input_state, selected_tool |-> selected_tool,
                          ev_ui_command |-> <<>>]
                  after == register_binding_presses(res, KeyBindings_default, input)
              IN  /\ input_state' = after.state
                  /\ selected_tool' = after.selected_tool
                  /\ ev_ui_command' = after.ev_ui_command
                  /\ frame' = input
                  /\ keys_down' = (keys_down \ went_up) \cup went_down
                  /\ held_since' =
                        [key \in InputKeys |->
                            IF key \in went_down
                            THEN [mode |-> input_state.mode,
                                  tool |-> selected_tool.active_tool]
                            ELSE IF key \in keys THEN KeyUp
                            ELSE held_since[key]]
                  /\ UNCHANGED <<world_vars, bs_vars>>

InitInput ==
    /\ NoWorld
    /\ NoBlockState
    /\ NoInput

NextInput == RegisterBindingPresses

SpecInput == InitInput /\ [][NextInput]_vars

----------------------------------------------------------------------------
(* Key bindings, checked under SpecInput. In the step formulas the unprimed *)
(* variables are the resources when a frame starts and the primed ones the  *)
(* frame's input and the resources when it has run.                         *)

\* the input carried the press of one key and nothing else
OnlyPress(input, key) == input = [just_pressed |-> {key}, just_released |-> {}]

\* the input carried the release of one key and nothing else
OnlyRelease(input, key) == input = [just_pressed |-> {}, just_released |-> {key}]

\* the key went down in the given mode with the given tool active, and has had
\* no event since
HeldSince(since, key, mode, tool) == since[key] = [mode |-> mode, tool |-> tool]

\* the key went down in the given mode and has had no event since
HeldFrom(since, key, mode) == since[key].mode = mode

Sent(events, command) == \E i \in 1..Len(events) : events[i] = command

PlaceBlock == [name |-> "PlaceBlock", arg |-> ""]

DestroyBlock == [name |-> "DestroyBlock", arg |-> ""]

ToggleBlockPicker == [name |-> "ToggleBlockPicker", arg |-> ""]

\* C23: in Normal mode with the Place tool, the frame in which the left mouse
\* button goes down switches the mode to PlacingBlock and sends no command;
\* the mode is PlacingBlock while the button stays down, and the frame in which
\* it goes up, the Place tool still active, switches back to Normal and sends
\* PlaceBlock once and nothing else.
C23_PlaceGesture ==
    [][/\ (/\ OnlyPress(frame', "Mouse.Left")
           /\ input_state.mode = "Normal"
           /\ selected_tool.active_tool = "Place")
             => (input_state'.mode = "PlacingBlock" /\ ev_ui_command' = <<>>)
       /\ HeldSince(held_since', "Mouse.Left", "Normal", "Place")
             => input_state'.mode = "PlacingBlock"
       /\ (/\ OnlyRelease(frame', "Mouse.Left")
           /\ HeldSince(held_since, "Mouse.Left", "Normal", "Place")
           /\ selected_tool.active_tool = "Place")
             => (input_state'.mode = "Normal" /\ ev_ui_command' = <<PlaceBlock>>)
      ]_vars

\* the button has gone up in a frame of its own: PlaceBlock was sent, the mode
\* is Normal again
C23_Witness ==
    /\ OnlyRelease(frame, "Mouse.Left")
    /\ ev_ui_command = <<PlaceBlock>>
    /\ input_state.mode = "Normal"
    /\ selected_tool.active_tool = "Place"
    /\ keys_down = {}

\* C24: while X, pressed in Normal mode, is down the active tool is Destroy;
\* a press of the left mouse button in Normal mode during that time sends
\* nothing and leaves the mode Normal, the mode stays Normal while both are
\* down, and the release sends DestroyBlock once and no PlaceBlock.
C24_DestroyGesture ==
    [][/\ HeldFrom(held_since', "Keyboard.X", "Normal")
             => selected_tool'.active_tool = "Destroy"
       /\ (/\ OnlyPress(frame', "Mouse.Left")
           /\ HeldFrom(held_since, "Keyboard.X", "Normal")
           /\ input_state.mode = "Normal")
             => (input_state'.mode = "Normal" /\ ev_ui_command' = <<>>)
       /\ (/\ HeldSince(held_since', "Mouse.Left", "Normal", "Destroy")
           /\ HeldFrom(held_since', "Keyboard.X", "Normal"))
             => input_state'.mode = "Normal"
       /\ (/\ OnlyRelease(frame', "Mouse.Left")
           /\ HeldSince(held_since, "Mouse.Left", "Normal", "Destroy")
           /\ HeldFrom(held_since, "Keyboard.X", "Normal"))
             => (input_state'.mode = "Normal" /\ ev_ui_command' = <<DestroyBlock>>)
      ]_vars

\* with X down since Normal mode the left button has gone up: DestroyBlock
C24_Witness ==
    /\ OnlyRelease(frame, "Mouse.Left")
    /\ HeldFrom(held_since, "Keyboard.X", "Normal")
    /\ keys_down = {"Keyboard.X"}
    /\ ev_ui_command = <<DestroyBlock>>
    /\ input_state.mode = "Normal"
    /\ selected_tool.active_tool = "Destroy"

\* C25: ToggleBlockPicker, the command of the tap-style binding of P, is sent
\* only in a frame in which P is released, and only if P went down while the
\* mode was Normal and the mode is Normal at the release too; the press of P
\* in Normal mode sends nothing and its release sends ToggleBlockPicker once.
C25_TapFiresOnRelease ==
    [][/\ Sent(ev_ui_command', ToggleBlockPicker) =>
             /\ "Keyboard.P" \in frame'.just_released
             /\ HeldFrom(held_since, "Keyboard.P", "Normal")
             /\ input_state.mode = "Normal"
       /\ (OnlyPress(frame', "Keyboard.P") /\ input_state.mode = "Normal")
             => ev_ui_command' = <<>>
       /\ (/\ OnlyRelease(frame', "Keyboard.P")
           /\ HeldFrom(held_since, "Keyboard.P", "Normal")
           /\ input_state.mode = "Normal")
             => ev_ui_command' = <<ToggleBlockPicker>>
      ]_vars

\* P has gone up in Normal mode in a frame of its own: ToggleBlockPicker
C25_Witness ==
    /\ OnlyRelease(frame, "Keyboard.P")
    /\ input_state.mode = "Normal"
    /\ ev_ui_command = <<ToggleBlockPicker>>

\* C26: after any sequence of frames the active tool is Destroy only if X is
\* down and the mode is PlacingBlock only if the left mouse button is down;
\* with every key up the mode is Normal and the active tool is Place.
C26_HoldUndoneOnRelease ==
    /\ selected_tool.active_tool = "Destroy" => "Keyboard.X" \in keys_down
    /\ input_state.mode = "PlacingBlock" => "Mouse.Left" \in keys_down
    /\ keys_down = {} =>
          (input_state.mode = "Normal" /\ selected_tool.active_tool = "Place")

====
